---------------------------- MODULE Spec2Model ----------------------------
(***************************************************************************)
(* A model of build-grep-rust (src/src/main.rs): the pattern compiler      *)
(* parse_pattern / parse_alternation, the backtracking matcher             *)
(* matches_at_position_recursive with its capture vector, the two          *)
(* dedicated matchers, and the search driver match_pattern.                *)
(*                                                                         *)
(* A character is a one-character string, a &[char] or String a sequence   *)
(* of characters.  Positions and token indices are 0-based as in the Rust  *)
(* code; the element at Rust index i is s[i + 1] here.                     *)
(***************************************************************************)
EXTENDS Integers, Sequences, FiniteSets, TLC

VARIABLES pattern, input, pc, alternatives, altIdx, tokens, startPos,
          lastEnd, captures, result, spins

vars == <<pattern, input, pc, alternatives, altIdx, tokens, startPos,
          lastEnd, captures, result, spins>>

----------------------------------------------------------------------------
(* Characters.                                                             *)

\* The printable ASCII characters, in code order: Ascii[k] has code k + 31.
\* "GRAVE" stands for the grave accent (code 96), which a TLA+ string cannot
\* hold.
Ascii ==
  << " ", "!", "\"", "#", "$", "%", "&", "'", "(", ")", "*", "+", ",", "-",
     ".", "/", "0", "1", "2", "3", "4", "5", "6", "7", "8", "9", ":", ";",
     "<", "=", ">", "?", "@", "A", "B", "C", "D", "E", "F", "G", "H", "I",
     "J", "K", "L", "M", "N", "O", "P", "Q", "R", "S", "T", "U", "V", "W",
     "X", "Y", "Z", "[", "\\", "]", "^", "_", "GRAVE", "a", "b", "c", "d", "e",
     "f", "g", "h", "i", "j", "k", "l", "m", "n", "o", "p", "q", "r", "s",
     "t", "u", "v", "w", "x", "y", "z", "{", "|", "}", "~" >>

\* `ch as u8` for a printable ASCII character.
CharCode(ch) == 31 + (CHOOSE k \in 1..Len(Ascii) : Ascii[k] = ch)

\* `c as char` for a code of a printable ASCII character.
CodeChar(n) == Ascii[n - 31]

\* char::is_ascii_digit
IsAsciiDigit(ch) == ch \in {"0", "1", "2", "3", "4", "5", "6", "7", "8", "9"}

\* char::is_ascii_alphabetic
IsAsciiAlphabetic(ch) ==
  ch \in {"a", "b", "c", "d", "e", "f", "g", "h", "i", "j", "k", "l", "m",
          "n", "o", "p", "q", "r", "s", "t", "u", "v", "w", "x", "y", "z",
          "A", "B", "C", "D", "E", "F", "G", "H", "I", "J", "K", "L", "M",
          "N", "O", "P", "Q", "R", "S", "T", "U", "V", "W", "X", "Y", "Z"}

\* char::is_whitespace, on the characters of the model.
IsWhitespace(ch) == ch \in {" ", "\t"}

\* char::to_digit(10) of an ASCII digit.
ToDigit(ch) == CharCode(ch) - CharCode("0")

\* Vec<char>::contains
Contains(chars, ch) == \E k \in 1..Len(chars) : chars[k] = ch

\* chars[from..to]
Slice(chars, from, to) == SubSeq(chars, from + 1, to)

----------------------------------------------------------------------------
(* enum Token.                                                             *)

Literal(c) == [t |-> "Literal", c |-> c]
Digit == [t |-> "Digit"]
Word == [t |-> "Word"]
Whitespace == [t |-> "Whitespace"]
CharClass(chars) == [t |-> "CharClass", chars |-> chars]
NegCharClass(chars) == [t |-> "NegCharClass", chars |-> chars]
Plus(inner) == [t |-> "Plus", inner |-> inner]
Question(inner) == [t |-> "Question", inner |-> inner]
Dot == [t |-> "Dot"]
Group(alts, n) == [t |-> "Group", alts |-> alts, n |-> n]
Backreference(n) == [t |-> "Backreference", n |-> n]

\* fn matches_token
MatchesToken(ch, token) ==
  CASE token.t = "Literal" -> ch = token.c
    [] token.t = "Digit" -> IsAsciiDigit(ch)
    [] token.t = "Word" -> IsAsciiAlphabetic(ch) \/ IsAsciiDigit(ch)
    [] token.t = "Whitespace" -> IsWhitespace(ch)
    [] token.t = "CharClass" -> Contains(token.chars, ch)
    [] token.t = "NegCharClass" -> ~Contains(token.chars, ch)
    [] token.t = "Plus" -> FALSE
    [] token.t = "Question" -> FALSE
    [] token.t = "Group" -> FALSE
    [] token.t = "Backreference" -> FALSE
    [] token.t = "Dot" -> TRUE

----------------------------------------------------------------------------
(* The compiler: parse_pattern and parse_alternation.                      *)

\* The `for c in start_char as u8..=end_char as u8` loop of a class range.
RECURSIVE RangeChars(_, _)
RangeChars(lo, hi) ==
  IF lo > hi THEN << >> ELSE <<CodeChar(lo)>> \o RangeChars(lo + 1, hi)

\* The `while i < chars.len() && chars[i] != ']'` loop of a character class:
\* the position it stops at and the characters collected.
RECURSIVE ParseClassBody(_, _, _)
ParseClassBody(chars, i, charClass) ==
  IF i < Len(chars) /\ chars[i + 1] # "]"
  THEN IF i + 2 < Len(chars) /\ chars[i + 2] = "-" /\ chars[i + 3] # "]"
       THEN ParseClassBody(chars, i + 3,
              charClass \o RangeChars(CharCode(chars[i + 1]),
                                      CharCode(chars[i + 3])))
       ELSE ParseClassBody(chars, i + 1, Append(charClass, chars[i + 1]))
  ELSE [i |-> i, charClass |-> charClass]

\* The token of a backslash escape, from the character after the backslash.
EscapeToken(c) ==
  CASE c = "d" -> Digit
    [] c = "w" -> Word
    [] c = "s" -> Whitespace
    [] IsAsciiDigit(c) -> Backreference(ToDigit(c))
    [] OTHER -> Literal(c)

\* The `+` and `?` arms: wrap the last token, or leave the list alone when
\* there is none.
Quantify(currentTokens, q) ==
  IF Len(currentTokens) = 0
  THEN currentTokens
  ELSE LET last == currentTokens[Len(currentTokens)]
           rest == SubSeq(currentTokens, 1, Len(currentTokens) - 1)
       IN  Append(rest, IF q = "+" THEN Plus(last) ELSE Question(last))

\* fn parse_alternation, as its loop: the state of the loop is the position
\* i, the group counter, the finished alternatives and the current token
\* list.  The result is (alternatives, i) and the group counter it leaves.
RECURSIVE ParseLoop(_, _, _, _, _)
ParseLoop(chars, i, groupCounter, alts, currentTokens) ==
  IF i >= Len(chars)
  THEN [alts |-> Append(alts, currentTokens), i |-> i, gc |-> groupCounter]
  ELSE
    LET ch == chars[i + 1] IN
    CASE ch = "|" ->
           ParseLoop(chars, i + 1, groupCounter,
                     Append(alts, currentTokens), << >>)
      [] ch = ")" ->
           [alts |-> Append(alts, currentTokens), i |-> i,
            gc |-> groupCounter]
      [] ch = "(" ->
           LET sub == ParseLoop(chars, i + 1, groupCounter + 1, << >>, << >>)
           IN  ParseLoop(chars, sub.i + 1, sub.gc, alts,
                         Append(currentTokens, Group(sub.alts, groupCounter)))
      [] ch = "\\" /\ i + 1 < Len(chars) ->
           ParseLoop(chars, i + 2, groupCounter, alts,
                     Append(currentTokens, EscapeToken(chars[i + 2])))
      [] ch = "[" ->
           LET negated == i + 1 < Len(chars) /\ chars[i + 2] = "^"
               from == IF negated THEN i + 2 ELSE i + 1
               body == ParseClassBody(chars, from, << >>)
           IN  IF body.i < Len(chars)
               THEN ParseLoop(chars, body.i + 1, groupCounter, alts,
                      Append(currentTokens,
                             IF negated THEN NegCharClass(body.charClass)
                                        ELSE CharClass(body.charClass)))
               ELSE ParseLoop(chars, body.i, groupCounter, alts,
                              currentTokens)
      [] ch = "+" ->
           ParseLoop(chars, i + 1, groupCounter, alts,
                     Quantify(currentTokens, "+"))
      [] ch = "?" ->
           ParseLoop(chars, i + 1, groupCounter, alts,
                     Quantify(currentTokens, "?"))
      [] ch = "." ->
           ParseLoop(chars, i + 1, groupCounter, alts,
                     Append(currentTokens, Dot))
      [] OTHER ->
           ParseLoop(chars, i + 1, groupCounter, alts,
                     Append(currentTokens, Literal(ch)))

\* fn parse_alternation
ParseAlternation(chars, start, groupCounter) ==
  ParseLoop(chars, start, groupCounter, << >>, << >>)

\* fn parse_pattern
ParsePattern(pat) == ParseAlternation(pat, 0, 1).alts

----------------------------------------------------------------------------
(* The capture vector and the outcome of a match attempt.                  *)

\* Option::None of Option<usize>.
None == -1

\* The outcome of a call that does not return: the `loop` of the Plus arm
\* over a group whose branch matched without consuming (main.rs 137-156).
Diverge == -2

\* What a call leaves behind: the position it returns (None, Diverge or the
\* end position) and the caller's capture vector as the call leaves it.
Outcome(pos, caps) == [pos |-> pos, caps |-> caps]

Max(a, b) == IF a >= b THEN a ELSE b

\* `while captures.len() < n { captures.push(String::new()) }`
PadCaptures(caps, n) ==
  IF Len(caps) >= n THEN caps
  ELSE [k \in 1..n |-> IF k <= Len(caps) THEN caps[k] ELSE << >>]

\* fn get_max_group_number
RECURSIVE GetMaxGroupNumber(_)
RECURSIVE MaxGroupOfAlternatives(_)
MaxGroupOfAlternatives(alts) ==
  IF Len(alts) = 0 THEN 0
  ELSE Max(GetMaxGroupNumber(Head(alts)), MaxGroupOfAlternatives(Tail(alts)))

GetMaxGroupNumber(toks) ==
  IF Len(toks) = 0 THEN 0
  ELSE
    LET tok == Head(toks)
        here ==
          CASE tok.t = "Group" ->
                 Max(tok.n, MaxGroupOfAlternatives(tok.alts))
            [] tok.t \in {"Plus", "Question"} ->
                 IF tok.inner.t = "Group"
                 THEN Max(tok.inner.n, MaxGroupOfAlternatives(tok.inner.alts))
                 ELSE 0
            [] OTHER -> 0
    IN  Max(here, GetMaxGroupNumber(Tail(toks)))

----------------------------------------------------------------------------
(* The backtracking matcher.                                               *)

RECURSIVE MatchesAtPositionRecursive(_, _, _, _, _)
RECURSIVE MatchesAtPositionWithCaptures(_, _, _, _)

\* Token::Question arm (main.rs 92-106).
MatchQuestion(inp, toks, pos, tokenIdx, caps) ==
  LET inner == toks[tokenIdx + 1].inner IN
  IF pos < Len(inp) /\ MatchesToken(inp[pos + 1], inner)
  THEN LET r == MatchesAtPositionRecursive(inp, toks, pos + 1, tokenIdx + 1,
                                           caps)
       IN  IF r.pos # None THEN r
           ELSE MatchesAtPositionRecursive(inp, toks, pos, tokenIdx + 1,
                                           r.caps)
  ELSE MatchesAtPositionRecursive(inp, toks, pos, tokenIdx + 1, caps)

\* One pass of `for alternative in alternatives` in the Plus arm over a
\* group: each alternative is matched against a clone of the captures, which
\* is dropped; the result is the end position of the first alternative that
\* matches (None when none does).
RECURSIVE FirstAlternativeEnd(_, _, _, _, _)
FirstAlternativeEnd(inp, alts, k, currentPos, caps) ==
  IF k > Len(alts) THEN None
  ELSE LET r == MatchesAtPositionWithCaptures(inp, alts[k], currentPos, caps)
       IN  IF r.pos # None THEN r.pos
           ELSE FirstAlternativeEnd(inp, alts, k + 1, currentPos, caps)

\* The first match and the `loop` of additional matches: the end positions
\* pushed to match_positions, or << Diverge >> when the loop never exits.
\* A pass that ends where it started leaves current_pos and the captures as
\* they were, so every later pass repeats it.
RECURSIVE MatchPositions(_, _, _, _, _)
MatchPositions(inp, alts, currentPos, caps, matchPositions) ==
  LET e == FirstAlternativeEnd(inp, alts, 1, currentPos, caps) IN
  IF e = None THEN matchPositions
  ELSE IF e = Diverge \/ e = currentPos THEN << Diverge >>
  ELSE MatchPositions(inp, alts, e, caps, Append(matchPositions, e))

\* `for &end_pos in match_positions.iter().rev()`: the continuation at each
\* recorded end position, last first.
RECURSIVE BacktrackPositions(_, _, _, _, _, _)
BacktrackPositions(inp, toks, tokenIdx, caps, matchPositions, k) ==
  IF k < 1 THEN Outcome(None, caps)
  ELSE LET r == MatchesAtPositionRecursive(inp, toks, matchPositions[k],
                                           tokenIdx + 1, caps)
       IN  IF r.pos # None THEN r
           ELSE BacktrackPositions(inp, toks, tokenIdx, r.caps,
                                   matchPositions, k - 1)

\* Token::Plus arm, inner token a Group (main.rs 110-172).
MatchPlusGroup(inp, toks, pos, tokenIdx, caps) ==
  LET alts == toks[tokenIdx + 1].inner.alts
      matchPositions == MatchPositions(inp, alts, pos, caps, << >>)
  IN  IF Len(matchPositions) = 0 THEN Outcome(None, caps)
      ELSE IF matchPositions[1] = Diverge THEN Outcome(Diverge, caps)
      ELSE BacktrackPositions(inp, toks, tokenIdx, caps, matchPositions,
                              Len(matchPositions))

\* `while pos + max_matches < len && matches_token(...) { max_matches += 1 }`
RECURSIVE MaxMatches(_, _, _, _)
MaxMatches(inp, inner, pos, maxMatches) ==
  IF pos + maxMatches < Len(inp)
     /\ MatchesToken(inp[pos + maxMatches + 1], inner)
  THEN MaxMatches(inp, inner, pos, maxMatches + 1)
  ELSE maxMatches

\* `for num_matches in (1..=max_matches).rev()`
RECURSIVE BacktrackCounts(_, _, _, _, _, _)
BacktrackCounts(inp, toks, pos, tokenIdx, caps, numMatches) ==
  IF numMatches < 1 THEN Outcome(None, caps)
  ELSE LET r == MatchesAtPositionRecursive(inp, toks, pos + numMatches,
                                           tokenIdx + 1, caps)
       IN  IF r.pos # None THEN r
           ELSE BacktrackCounts(inp, toks, pos, tokenIdx, r.caps,
                                numMatches - 1)

\* A + that takes the maximal run and does not back off.
MatchPlusSingleNoBackoff(inp, toks, pos, tokenIdx, caps) ==
  LET inner == toks[tokenIdx + 1].inner IN
  IF pos >= Len(inp) \/ ~MatchesToken(inp[pos + 1], inner)
  THEN Outcome(None, caps)
  ELSE MatchesAtPositionRecursive(inp, toks,
         pos + MaxMatches(inp, inner, pos, 1), tokenIdx + 1, caps)

\* Token::Plus arm, inner token not a Group (main.rs 173-199).
MatchPlusSingle(inp, toks, pos, tokenIdx, caps) ==
  LET inner == toks[tokenIdx + 1].inner IN
  IF pos >= Len(inp) \/ ~MatchesToken(inp[pos + 1], inner)
  THEN Outcome(None, caps)
  ELSE BacktrackCounts(inp, toks, pos, tokenIdx, caps,
                       MaxMatches(inp, inner, pos, 1))

\* Token::Group arm (main.rs 202-238): alternative k and those after it.
RECURSIVE MatchGroupFrom(_, _, _, _, _, _)
MatchGroupFrom(inp, toks, pos, tokenIdx, caps, k) ==
  LET alts == toks[tokenIdx + 1].alts
      groupNumber == toks[tokenIdx + 1].n
  IN  IF k > Len(alts) THEN Outcome(None, caps)
      ELSE
        LET tempCaptures == PadCaptures(caps, groupNumber)
            branch == MatchesAtPositionWithCaptures(inp, alts[k], pos,
                                                    tempCaptures)
        IN  IF branch.pos = Diverge THEN Outcome(Diverge, caps)
            ELSE IF branch.pos = None
            THEN MatchGroupFrom(inp, toks, pos, tokenIdx, caps, k + 1)
            ELSE
              LET captured ==
                    [branch.caps EXCEPT
                       ![groupNumber] = Slice(inp, pos, branch.pos)]
                  rest == MatchesAtPositionRecursive(inp, toks, branch.pos,
                                                     tokenIdx + 1, captured)
              IN  IF rest.pos = Diverge THEN Outcome(Diverge, caps)
                  ELSE IF rest.pos # None THEN rest
                  ELSE MatchGroupFrom(inp, toks, pos, tokenIdx, caps, k + 1)

\* A group that commits to the first alternative whose branch matches.
RECURSIVE MatchGroupCommitted(_, _, _, _, _, _)
MatchGroupCommitted(inp, toks, pos, tokenIdx, caps, k) ==
  LET alts == toks[tokenIdx + 1].alts
      groupNumber == toks[tokenIdx + 1].n
  IN  IF k > Len(alts) THEN Outcome(None, caps)
      ELSE
        LET branch == MatchesAtPositionWithCaptures(inp, alts[k], pos,
                        PadCaptures(caps, groupNumber))
        IN  IF branch.pos = Diverge THEN Outcome(Diverge, caps)
            ELSE IF branch.pos = None
            THEN MatchGroupCommitted(inp, toks, pos, tokenIdx, caps, k + 1)
            ELSE
              LET rest == MatchesAtPositionRecursive(inp, toks, branch.pos,
                            tokenIdx + 1,
                            [branch.caps EXCEPT
                               ![groupNumber] = Slice(inp, pos, branch.pos)])
              IN  IF rest.pos >= 0 THEN rest ELSE Outcome(rest.pos, caps)

MatchGroupCommitFirst(inp, toks, pos, tokenIdx, caps) ==
  MatchGroupCommitted(inp, toks, pos, tokenIdx, caps, 1)

\* A group that records its capture in the caller's vector before the
\* continuation is tried, with no copy to fall back to.
RECURSIVE MatchGroupWriting(_, _, _, _, _, _)
MatchGroupWriting(inp, toks, pos, tokenIdx, caps, k) ==
  LET alts == toks[tokenIdx + 1].alts
      groupNumber == toks[tokenIdx + 1].n
  IN  IF k > Len(alts) THEN Outcome(None, caps)
      ELSE
        LET branch == MatchesAtPositionWithCaptures(inp, alts[k], pos,
                        PadCaptures(caps, groupNumber))
        IN  IF branch.pos = Diverge THEN Outcome(Diverge, caps)
            ELSE IF branch.pos = None
            THEN MatchGroupWriting(inp, toks, pos, tokenIdx, caps, k + 1)
            ELSE
              LET rest == MatchesAtPositionRecursive(inp, toks, branch.pos,
                            tokenIdx + 1,
                            [branch.caps EXCEPT
                               ![groupNumber] = Slice(inp, pos, branch.pos)])
              IN  IF rest.pos # None THEN rest
                  ELSE MatchGroupWriting(inp, toks, pos, tokenIdx, rest.caps,
                                         k + 1)

MatchGroupInPlace(inp, toks, pos, tokenIdx, caps) ==
  MatchGroupWriting(inp, toks, pos, tokenIdx, caps, 1)

\* Token::Group arm (main.rs 202-238).
MatchGroup(inp, toks, pos, tokenIdx, caps) ==
  MatchGroupFrom(inp, toks, pos, tokenIdx, caps, 1)

\* `for (i, &ch) in captured_chars.iter().enumerate()`
TextAt(inp, pos, text) ==
  \A i \in 1..Len(text) : inp[pos + i] = text[i]

\* A backreference that compares only the length of the captured text.
MatchBackreferenceLengthOnly(inp, toks, pos, tokenIdx, caps) ==
  LET groupNum == toks[tokenIdx + 1].n IN
  IF groupNum = 0 THEN Outcome(None, caps)
  ELSE IF groupNum > Len(caps) THEN Outcome(None, caps)
  ELSE LET capturedChars == caps[groupNum] IN
       IF pos + Len(capturedChars) > Len(inp) THEN Outcome(None, caps)
       ELSE MatchesAtPositionRecursive(inp, toks, pos + Len(capturedChars),
                                       tokenIdx + 1, caps)

\* Token::Backreference arm (main.rs 239-278).
MatchBackreference(inp, toks, pos, tokenIdx, caps) ==
  LET groupNum == toks[tokenIdx + 1].n IN
  IF groupNum = 0 THEN Outcome(None, caps)
  ELSE IF groupNum > Len(caps) THEN Outcome(None, caps)
  ELSE LET capturedChars == caps[groupNum] IN
       IF pos + Len(capturedChars) > Len(inp) THEN Outcome(None, caps)
       ELSE IF ~TextAt(inp, pos, capturedChars) THEN Outcome(None, caps)
       ELSE MatchesAtPositionRecursive(inp, toks, pos + Len(capturedChars),
                                       tokenIdx + 1, caps)

\* The `_` arm: a single-character token (main.rs 280-285).
MatchSingle(inp, toks, pos, tokenIdx, caps) ==
  IF pos >= Len(inp) \/ ~MatchesToken(inp[pos + 1], toks[tokenIdx + 1])
  THEN Outcome(None, caps)
  ELSE MatchesAtPositionRecursive(inp, toks, pos + 1, tokenIdx + 1, caps)

\* fn matches_at_position_recursive
MatchesAtPositionRecursive(inp, toks, pos, tokenIdx, caps) ==
  IF tokenIdx >= Len(toks) THEN Outcome(pos, caps)
  ELSE
    LET tok == toks[tokenIdx + 1] IN
    CASE tok.t = "Question" -> MatchQuestion(inp, toks, pos, tokenIdx, caps)
      [] tok.t = "Plus" ->
           IF tok.inner.t = "Group"
           THEN MatchPlusGroup(inp, toks, pos, tokenIdx, caps)
           ELSE MatchPlusSingle(inp, toks, pos, tokenIdx, caps)
      [] tok.t = "Group" -> MatchGroup(inp, toks, pos, tokenIdx, caps)
      [] tok.t = "Backreference" ->
           MatchBackreference(inp, toks, pos, tokenIdx, caps)
      [] OTHER -> MatchSingle(inp, toks, pos, tokenIdx, caps)

\* fn matches_at_position_with_captures
MatchesAtPositionWithCaptures(inp, toks, startPosition, caps) ==
  MatchesAtPositionRecursive(inp, toks, startPosition, 0,
                             PadCaptures(caps, GetMaxGroupNumber(toks)))

----------------------------------------------------------------------------
(* The two dedicated matchers.                                             *)

\* The pattern match_pattern hands to match_i_see_pattern (main.rs 473).
ISeePattern ==
  << "^", "I", " ", "s", "e", "e", " ", "(", "\\", "d", " ", "(", "c", "a",
     "t", "|", "d", "o", "g", "|", "c", "o", "w", ")", "s", "?", "(", ",",
     " ", "|", " ", "a", "n", "d", " ", ")", "?", ")", "+", "$" >>

\* The pattern match_pattern hands to match_abc_def_pattern (main.rs 478).
AbcDefPattern ==
  << "(", "(", "[", "a", "b", "c", "]", "+", ")", "-", "(", "[", "d", "e",
     "f", "]", "+", ")", ")", " ", "i", "s", " ", "\\", "1", ",", " ", "n",
     "o", "t", " ", "(", "[", "^", "x", "y", "z", "]", "+", ")", ",", " ",
     "\\", "2", ",", " ", "o", "r", " ", "\\", "3" >>

\* `pos + n <= chars.len() && chars[pos..pos + n] == text`, n the length of
\* text.
HasAt(chars, pos, text) ==
  pos + Len(text) <= Len(chars) /\ Slice(chars, pos, pos + Len(text)) = text

\* The `for animal in &["cat", "dog", "cow"]` loop: i after it, and whether
\* an animal matched.
MatchAnimal(chars, i) ==
  IF \E animal \in {<<"c", "a", "t">>, <<"d", "o", "g">>, <<"c", "o", "w">>} :
       HasAt(chars, i, animal)
  THEN [i |-> i + 3, matched |-> TRUE]
  ELSE [i |-> i, matched |-> FALSE]

\* The `while i < chars.len()` loop of match_i_see_pattern (main.rs 300-352):
\* i and matched_count when the loop is left.
RECURSIVE ISeeLoop(_, _, _)
ISeeLoop(chars, i, matchedCount) ==
  LET left == [i |-> i, matchedCount |-> matchedCount] IN
  IF ~(i < Len(chars)) THEN left
  ELSE IF ~IsAsciiDigit(chars[i + 1]) THEN left
  ELSE IF i + 1 >= Len(chars) \/ chars[i + 2] # " "
       THEN [left EXCEPT !.i = i + 1]
  ELSE
    LET animal == MatchAnimal(chars, i + 2) IN
    IF ~animal.matched THEN [left EXCEPT !.i = i + 2]
    ELSE
      LET j == IF animal.i < Len(chars) /\ chars[animal.i + 1] = "s"
               THEN animal.i + 1 ELSE animal.i
          count == matchedCount + 1
      IN  IF j + 2 <= Len(chars) /\ chars[j + 1] = "," /\ chars[j + 2] = " "
          THEN ISeeLoop(chars, j + 2, count)
          ELSE IF j + 5 <= Len(chars)
          THEN IF Slice(chars, j, j + 5) = <<" ", "a", "n", "d", " ">>
               THEN ISeeLoop(chars, j + 5, count)
               ELSE IF j < Len(chars)
               THEN [i |-> j, matchedCount |-> count]
               ELSE ISeeLoop(chars, j, count)
          ELSE IF j < Len(chars)
          THEN [i |-> j, matchedCount |-> count]
          ELSE ISeeLoop(chars, j, count)

\* fn match_i_see_pattern
MatchISeePattern(inp) ==
  LET prefix == <<"I", " ", "s", "e", "e", " ">> IN
  IF ~HasAt(inp, 0, prefix) THEN FALSE
  ELSE LET chars == Slice(inp, 6, Len(inp))
           left == ISeeLoop(chars, 0, 0)
       IN  left.i = Len(chars) /\ left.matchedCount > 0

\* `while pos < chars.len() && <chars[pos] is accepted> { pos += 1 }`: pos
\* after the run of characters of `accept` (all but `reject` when `negated`).
RECURSIVE RunEnd(_, _, _, _)
RunEnd(chars, pos, accept, negated) ==
  IF pos < Len(chars)
     /\ (IF negated THEN chars[pos + 1] \notin accept
                    ELSE chars[pos + 1] \in accept)
  THEN RunEnd(chars, pos + 1, accept, negated)
  ELSE pos

\* fn match_abc_def_pattern
MatchAbcDefPattern(chars) ==
  LET p1 == RunEnd(chars, 0, {"a", "b", "c"}, FALSE)
      abcPart == Slice(chars, 0, p1)
      p2 == p1 + 1
      p3 == RunEnd(chars, p2, {"d", "e", "f"}, FALSE)
      defPart == Slice(chars, p2, p3)
      group1 == abcPart \o <<"-">> \o defPart
      p4 == p3 + 4
      p5 == p4 + Len(group1)
      p6 == p5 + 6
      p7 == RunEnd(chars, p6, {"x", "y", "z", ","}, TRUE)
      p8 == p7 + 2
      p9 == p8 + Len(abcPart)
      p10 == p9 + 5
      p11 == p10 + Len(defPart)
  IN  /\ Len(abcPart) # 0
      /\ ~(p1 >= Len(chars) \/ chars[p1 + 1] # "-")
      /\ Len(defPart) # 0
      /\ HasAt(chars, p3, <<" ", "i", "s", " ">>)
      /\ HasAt(chars, p4, group1)
      /\ HasAt(chars, p5, <<",", " ", "n", "o", "t", " ">>)
      /\ p7 > p6
      /\ HasAt(chars, p7, <<",", " ">>)
      /\ HasAt(chars, p8, abcPart)
      /\ HasAt(chars, p9, <<",", " ", "o", "r", " ">>)
      /\ HasAt(chars, p10, defPart)
      /\ p11 = Len(chars)

----------------------------------------------------------------------------
(* The search driver: fn match_pattern.                                    *)

\* str::starts_with('^') and str::ends_with('$') of the raw pattern.
StartsWithAnchor(pat) == Len(pat) > 0 /\ pat[1] = "^"
EndsWithAnchor(pat) == Len(pat) > 0 /\ pat[Len(pat)] = "$"

\* `tokens.remove(0)` when the pattern starts with ^ and the first token is
\* Literal('^'); then `tokens.pop()` when the pattern ends with $ and the
\* last token is Literal('$') (main.rs 491-501).
StripAnchors(pat, toks) ==
  LET t1 == IF StartsWithAnchor(pat) /\ Len(toks) > 0
               /\ toks[1].t = "Literal" /\ toks[1].c = "^"
            THEN Tail(toks) ELSE toks
  IN  IF EndsWithAnchor(pat) /\ Len(t1) > 0
         /\ t1[Len(t1)].t = "Literal" /\ t1[Len(t1)].c = "$"
      THEN SubSeq(t1, 1, Len(t1) - 1) ELSE t1

\* One attempt of the driver: the matcher at a start position with
\* `let mut captures = Vec::new()`.
Attempt(inp, toks, start) ==
  MatchesAtPositionWithCaptures(inp, toks, start, << >>)

\* Whether an attempt's end position counts as a match: any end position,
\* or with the end anchor only the end of the input.
Accepts(inp, pat, endPos) ==
  /\ endPos # None
  /\ endPos # Diverge
  /\ (EndsWithAnchor(pat) => endPos = Len(inp))

\* `let matches = ...` for one alternative (main.rs 503-549), from start
\* position `start` on: "true", "false", or "diverge" when an attempt does
\* not return.  With a leading ^ only position 0 is tried.
RECURSIVE AlternativeMatches(_, _, _, _)
AlternativeMatches(inp, pat, toks, start) ==
  LET endPos == Attempt(inp, toks, start).pos IN
  IF endPos = Diverge THEN "diverge"
  ELSE IF Accepts(inp, pat, endPos) THEN "true"
  ELSE IF StartsWithAnchor(pat) \/ start >= Len(inp) THEN "false"
  ELSE AlternativeMatches(inp, pat, toks, start + 1)

\* `for mut tokens in alternatives` (main.rs 489-556), from alternative k.
RECURSIVE AnyAlternativeMatches(_, _, _, _)
AnyAlternativeMatches(inp, pat, alts, k) ==
  IF k > Len(alts) THEN "false"
  ELSE LET m == AlternativeMatches(inp, pat, StripAnchors(pat, alts[k]), 0)
       IN  IF m = "false" THEN AnyAlternativeMatches(inp, pat, alts, k + 1)
           ELSE m

\* The general path of match_pattern (main.rs 482-556), as a function.
GeneralMatch(inp, pat) ==
  AnyAlternativeMatches(inp, pat, ParsePattern(pat), 1)

\* fn match_pattern, as a function: "true", "false" or "diverge".
MatchPattern(inp, pat) ==
  IF pat = ISeePattern
  THEN (IF MatchISeePattern(inp) THEN "true" ELSE "false")
  ELSE IF pat = AbcDefPattern
  THEN (IF MatchAbcDefPattern(inp) THEN "true" ELSE "false")
  ELSE GeneralMatch(inp, pat)

----------------------------------------------------------------------------
(* The patterns and inputs of the model.                                   *)

\* Every sequence over `alphabet` of length at most n.
RECURSIVE SeqsUpTo(_, _)
SeqsUpTo(alphabet, n) ==
  IF n = 0 THEN { << >> }
  ELSE LET shorter == SeqsUpTo(alphabet, n - 1)
       IN  shorter \cup { Append(s, c) : s \in shorter, c \in alphabet }

MaxPatternLen == 3
MaxInputLen == 3
MaxSpins == 2

PatternAlphabet == {"a", "(", ")", "|", "+", "?", "\\", "1"}
InputAlphabet == {"a", "b"}

\* Patterns written out, the two intercepted ones beside them.
NamedPatterns ==
  { <<"^", "a", "b", "c", "$">>,
    <<"a", "b", "c", "$">>,
    <<"^", "a", "b", "c">>,
    <<"^", "(", "a", "|", "a", "b", ")", "$">>,
    <<"(", "a", "|", "a", "b", ")", "$">>,
    <<"^", "a", "?", "$">>,
    <<"a", "+", "b">>,
    <<"a", "+", "a", "b">>,
    <<"^", "a", "+", "$">>,
    <<"(", "a", "|", "a", "b", ")", "c">>,
    <<"(", "a", "|", "b", "|", "a", "b", ")", "+", "c">>,
    <<"(", "c", "a", "t", ")", "\\", "1">>,
    <<"(", "a", "*", ")", "\\", "1">>,
    <<"(", "a", "?", ")", "\\", "1">>,
    <<"\\", "1", "(", "a", ")">>,
    <<"(", "a", ")", "\\", "2">>,
    <<"[", "a", "b">>,
    <<"(", "a", "b">>,
    <<"a", "b", "\\">>,
    <<"+", "a">>,
    <<"?", "a">>,
    <<"(", "(", "a", ")", "b", "|", "a", ")", "\\", "2">>,
    <<"(", "a", "|", "(", "b", ")", ")", "+", "\\", "2", "c">>,
    <<"(", "a", ")", "(", "b", ")", "?", "\\", "1">>,
    <<"^", "(", "a", "b", ")", "?", "c", "$">>,
    <<"(", "a", ")", "?", "b">>,
    <<"(", "a", ")", "+", "\\", "1">>,
    <<"(", "(", "a", ")", "b", ")", "+", "\\", "2">>,
    <<"(", "a", "+", ")", "a", "b">>,
    <<"(", ")", "+">>,
    <<"(", "a", "?", ")", "+">>,
    <<"a", "\\", "$">>,
    <<"^", "a", "\\", "+", "b", "$">>,
    <<"[", "a", "-", "c", "]", "+", "\\", "d">>,
    <<"[", "^", "a", "]", "\\", "w", "\\", "s", "?", ".">>,
    <<"a", "|", "b", "c", "$">>,
    ISeePattern,
    AbcDefPattern }

\* Inputs written out, for the named patterns.
NamedInputs ==
  { <<"c">>,
    <<"a", "c">>,
    <<"a", "b", "c">>,
    <<"a", "a", "a", "b">>,
    <<"x", "a", "b", "c">>,
    <<"a", "b", "c", "x">>,
    <<"a", "b", "c", "d">>,
    <<"c", "a", "t", "c", "a", "t">>,
    <<"c", "a", "t", "d", "o", "g">>,
    <<"c", "a", "t">>,
    <<"a", "$">>,
    <<"a", "+", "b">>,
    <<"a", "*", "a", "*">>,
    <<"a", "b", "1">>,
    <<"c", "b", " ", "2">>,
    <<"I", " ", "s", "e", "e", " ", "1", " ", "c", "a", "t">>,
    <<"I", " ", "s", "e", "e", " ", "1", " ", "c", "a", "t", ",", " ">>,
    <<"I", " ", "s", "e", "e", " ", "1", " ", "c", "a", "t", "2", " ", "d", "o", "g">>,
    <<"I", " ", "s", "e", "e", " ", "1", " ", "c", "a", "t", ",", " ", "2", " ", "d", "o", "g", "s">>,
    <<"I", " ", "s", "e", "e", " ", "2", " ", "d", "o", "g", "s", " ", "a", "n", "d", " ", "1", " ", "c", "o", "w">>,
    <<"I", " ", "s", "e", "e", " ", "1", " ", "c", "a", "t", "s">>,
    <<"I", " ", "s", "e", "e", " ", "1">>,
    <<"I", " ", "s", "e", "e", " ", "1", " ", "c", "a", "t", ",", " ", "2">>,
    <<"a", "b", "c", "-", "d", "e", "f", " ", "i", "s", " ", "a", "b", "c", "-", "d", "e", "f", ",", " ", "n", "o", "t", " ", "e", "f", "g", ",", " ", "a", "b", "c", ",", " ", "o", "r", " ", "d", "e", "f">>,
    <<"x", "a", "b", "c", "-", "d", "e", "f", " ", "i", "s", " ", "a", "b", "c", "-", "d", "e", "f", ",", " ", "n", "o", "t", " ", "e", "f", "g", ",", " ", "a", "b", "c", ",", " ", "o", "r", " ", "d", "e", "f">>,
    <<"a", "-", "d", " ", "i", "s", " ", "a", "-", "d", ",", " ", "n", "o", "t", " ", "e", ",", " ", "a", ",", " ", "o", "r", " ", "d">>,
    <<"a", "-", "d", " ", "i", "s", " ", "a", "-", "d", ",", " ", "n", "o", "t", " ", "e", ",", " ", "a", ",", " ", "o", "r", " ", "d", "!">>,
    <<"a", "-", "d", " ", "i", "s", " ", "a", "-", "d", ",", " ", "n", "o", "t", " ", "e", ",", "f", ",", " ", "a", ",", " ", "o", "r", " ", "d">>,
    <<"a", "-", "d", " ", "i", "s", " ", "a", "-", "e", ",", " ", "n", "o", "t", " ", "e", ",", " ", "a", ",", " ", "o", "r", " ", "d">> }

GeneratedPatterns == SeqsUpTo(PatternAlphabet, MaxPatternLen)
GeneratedInputs == SeqsUpTo(InputAlphabet, MaxInputLen)

Patterns == NamedPatterns \cup GeneratedPatterns

\* The (pattern, input) pairs match_pattern is called with.
Calls ==
  (Patterns \X GeneratedInputs) \cup (NamedPatterns \X NamedInputs)

----------------------------------------------------------------------------
(* match_pattern as a state machine.  pc is the place in match_pattern:    *)
(* "start" at entry, "alt" at the head of `for mut tokens in alternatives`,*)
(* "try" before an attempt at startPos, "loop" inside a loop that never    *)
(* exits, "done" after the return.  lastEnd and captures are what the last *)
(* attempt returned and left in its capture vector.                        *)

Init ==
  /\ \E call \in Calls : pattern = call[1] /\ input = call[2]
  /\ pc = "start"
  /\ alternatives = << >>
  /\ altIdx = 0
  /\ tokens = << >>
  /\ startPos = 0
  /\ lastEnd = None
  /\ captures = << >>
  /\ result = FALSE
  /\ spins = 0

\* main.rs 473-475
CallISee ==
  /\ pc = "start"
  /\ pattern = ISeePattern
  /\ result' = MatchISeePattern(input)
  /\ pc' = "done"
  /\ UNCHANGED <<pattern, input, alternatives, altIdx, tokens, startPos,
                 lastEnd, captures, spins>>

\* main.rs 478-480
CallAbcDef ==
  /\ pc = "start"
  /\ pattern # ISeePattern
  /\ pattern = AbcDefPattern
  /\ result' = MatchAbcDefPattern(input)
  /\ pc' = "done"
  /\ UNCHANGED <<pattern, input, alternatives, altIdx, tokens, startPos,
                 lastEnd, captures, spins>>

\* main.rs 482-486
Compile ==
  /\ pc = "start"
  /\ pattern # ISeePattern
  /\ pattern # AbcDefPattern
  /\ alternatives' = ParsePattern(pattern)
  /\ altIdx' = 0
  /\ pc' = "alt"
  /\ UNCHANGED <<pattern, input, tokens, startPos, lastEnd, captures,
                 result, spins>>

\* The head of `for mut tokens in alternatives` with an alternative left:
\* the anchors are stripped (main.rs 489-501).
NextAlternative ==
  /\ pc = "alt"
  /\ altIdx < Len(alternatives)
  /\ tokens' = StripAnchors(pattern, alternatives[altIdx + 1])
  /\ startPos' = 0
  /\ pc' = "try"
  /\ UNCHANGED <<pattern, input, alternatives, altIdx, lastEnd, captures,
                 result, spins>>

\* No alternative left: `false` (main.rs 556).
ReturnFalse ==
  /\ pc = "alt"
  /\ altIdx >= Len(alternatives)
  /\ result' = FALSE
  /\ pc' = "done"
  /\ UNCHANGED <<pattern, input, alternatives, altIdx, tokens, startPos,
                 lastEnd, captures, spins>>

\* What follows an attempt that returned: `return true` when it counts as a
\* match, the next start position when the start is not anchored and one is
\* left, the next alternative otherwise.
AfterAttempt(endPos) ==
  IF Accepts(input, pattern, endPos)
  THEN /\ result' = TRUE
       /\ pc' = "done"
       /\ UNCHANGED <<altIdx, startPos>>
  ELSE IF ~StartsWithAnchor(pattern) /\ startPos < Len(input)
  THEN /\ startPos' = startPos + 1
       /\ pc' = "try"
       /\ UNCHANGED <<altIdx, result>>
  ELSE /\ altIdx' = altIdx + 1
       /\ pc' = "alt"
       /\ UNCHANGED <<startPos, result>>

\* One attempt at startPos that returns (main.rs 503-553).
TryMatch ==
  /\ pc = "try"
  /\ LET r == Attempt(input, tokens, startPos) IN
       /\ r.pos # Diverge
       /\ lastEnd' = r.pos
       /\ captures' = r.caps
       /\ AfterAttempt(r.pos)
  /\ UNCHANGED <<pattern, input, alternatives, tokens, spins>>

\* An attempt that enters the `loop` of main.rs 137-156 and never leaves it.
EnterLoop ==
  /\ pc = "try"
  /\ Attempt(input, tokens, startPos).pos = Diverge
  /\ pc' = "loop"
  /\ UNCHANGED <<pattern, input, alternatives, altIdx, tokens, startPos,
                 lastEnd, captures, result, spins>>

\* One more pass of that loop: match_positions grows by one.
Spin ==
  /\ pc = "loop"
  /\ spins < MaxSpins
  /\ spins' = spins + 1
  /\ UNCHANGED <<pattern, input, pc, alternatives, altIdx, tokens, startPos,
                 lastEnd, captures, result>>

Next ==
  \/ CallISee
  \/ CallAbcDef
  \/ Compile
  \/ NextAlternative
  \/ ReturnFalse
  \/ TryMatch
  \/ EnterLoop
  \/ Spin

Spec == Init /\ [][Next]_vars

----------------------------------------------------------------------------
(* Helpers of the properties below.                                        *)

\* Every token sequence of a compiled pattern: the sequence itself and,
\* recursively, each alternative of each group in it.
RECURSIVE SeqsWithin(_)
RECURSIVE SeqsOfToken(_)
SeqsOfToken(tok) ==
  CASE tok.t = "Group" ->
         UNION { SeqsWithin(tok.alts[j]) : j \in 1..Len(tok.alts) }
    [] tok.t \in {"Plus", "Question"} -> SeqsOfToken(tok.inner)
    [] OTHER -> {}

SeqsWithin(toks) ==
  {toks} \cup UNION { SeqsOfToken(toks[k]) : k \in 1..Len(toks) }

SingleCharKinds ==
  {"Literal", "Digit", "Word", "Whitespace", "CharClass", "NegCharClass",
   "Dot"}

\* The capture vector an attempt of the driver starts the matcher with.
FreshCaptures == PadCaptures(<< >>, GetMaxGroupNumber(tokens))

\* Capture vectors of the pattern's groups with some groups already
\* captured: each slot empty or holding "a".
SomeCaptures ==
  { [k \in 1..GetMaxGroupNumber(tokens) |-> IF k \in filled THEN <<"a">>
                                            ELSE << >>] :
      filled \in SUBSET (1..GetMaxGroupNumber(tokens)) }

\* The states in which the properties of the matcher are evaluated: the
\* driver is about to make the first attempt of an alternative.
AtFirstAttempt == pc = "try" /\ startPos = 0

Special(pat) == pat = ISeePattern \/ pat = AbcDefPattern

----------------------------------------------------------------------------
(* C1.                                                                     *)

\* The positions a token sequence can end at from position `from`, over
\* every choice of alternative and of repetition count, for tokens without
\* backreferences whose quantifiers stand on single-character tokens.
RECURSIVE RefSeqEnds(_, _, _, _)
RECURSIVE RefTokenEnds(_, _, _)
RECURSIVE RefRepeatEnds(_, _, _)
RefRepeatEnds(inp, inner, from) ==
  LET once == RefTokenEnds(inp, inner, from) IN
  once \cup UNION { RefRepeatEnds(inp, inner, p) : p \in once \ {from} }

RefTokenEnds(inp, tok, from) ==
  CASE tok.t \in SingleCharKinds ->
         IF from < Len(inp) /\ MatchesToken(inp[from + 1], tok)
         THEN {from + 1} ELSE {}
    [] tok.t = "Group" ->
         UNION { RefSeqEnds(inp, tok.alts[j], 1, from) :
                   j \in 1..Len(tok.alts) }
    [] tok.t = "Question" -> {from} \cup RefTokenEnds(inp, tok.inner, from)
    [] tok.t = "Plus" -> RefRepeatEnds(inp, tok.inner, from)
    [] OTHER -> {}

RefSeqEnds(inp, toks, k, from) ==
  IF k > Len(toks) THEN {from}
  ELSE UNION { RefSeqEnds(inp, toks, k + 1, p) :
                 p \in RefTokenEnds(inp, toks[k], from) }

\* No backreference, and every quantifier on a single-character token.
RECURSIVE PlainSeq(_)
PlainToken(tok) ==
  CASE tok.t \in SingleCharKinds -> TRUE
    [] tok.t = "Group" -> \A j \in 1..Len(tok.alts) : PlainSeq(tok.alts[j])
    [] tok.t \in {"Plus", "Question"} -> tok.inner.t \in SingleCharKinds
    [] OTHER -> FALSE

PlainSeq(toks) == \A k \in 1..Len(toks) : PlainToken(toks[k])

\* Some alternative of the pattern, from some permitted start position and
\* under some choice of branches and counts, ends exactly at the end of the
\* input.
SomeChoiceReachesEnd ==
  \E k \in 1..Len(alternatives) :
    \E start \in (IF StartsWithAnchor(pattern) THEN {0} ELSE 0..Len(input)) :
      Len(input) \in
        RefSeqEnds(input, StripAnchors(pattern, alternatives[k]), 1, start)

\* C1: when the pattern ends with $, match_pattern returns true if and only
\* if some permitted start position and some choice of alternation branches
\* and repetition counts match the token sequence from that start to exactly
\* the end of the input.  Stated for the patterns without backreferences and
\* without quantified groups.
C1_EndAnchorIffSomeChoiceReachesEnd ==
  (/\ pc = "done"
   /\ ~Special(pattern)
   /\ EndsWithAnchor(pattern)
   /\ \A k \in 1..Len(alternatives) : PlainSeq(alternatives[k]))
  => (result <=> SomeChoiceReachesEnd)

----------------------------------------------------------------------------
(* C2.                                                                     *)

\* The length of the longest run of characters satisfying `tok` from pos.
MaximalRun(inp, tok, pos) ==
  CHOOSE k \in 0..(Len(inp) - pos) :
    /\ \A j \in 1..k : MatchesToken(inp[pos + j], tok)
    /\ (pos + k < Len(inp) => ~MatchesToken(inp[pos + k + 1], tok))

\* The continuation after token tokenIdx, tried at position p.
Continuation(inp, toks, p, tokenIdx, caps) ==
  MatchesAtPositionRecursive(inp, toks, p, tokenIdx + 1, caps).pos

\* What the claim says a + over a single-character token returns at pos:
\* None without a first character, else the continuation's result at the
\* largest count, from the maximal run down to 1, at which it does not fail.
PlusExpected(inp, toks, pos, tokenIdx, caps) ==
  LET k == IF pos <= Len(inp)
           THEN MaximalRun(inp, toks[tokenIdx + 1].inner, pos) ELSE 0
      good == { j \in 1..k :
                  Continuation(inp, toks, pos + j, tokenIdx, caps) # None }
  IN  IF good = {} THEN None
      ELSE Continuation(inp, toks,
                        pos + (CHOOSE j \in good : \A i \in good : i <= j),
                        tokenIdx, caps)

\* C2: a + over a single-character token fails when the character at pos
\* does not satisfy the token; otherwise it tries the continuation at
\* pos+k, ..., pos+1 (k the maximal run) and returns the first success.
C2_PlusGreedyBacktracking ==
  AtFirstAttempt =>
    \A toks \in SeqsWithin(tokens) :
      \A tokenIdx \in 0..(Len(toks) - 1) :
        (/\ toks[tokenIdx + 1].t = "Plus"
         /\ toks[tokenIdx + 1].inner.t \in SingleCharKinds)
        => \A pos \in 0..Len(input) :
             MatchesAtPositionRecursive(input, toks, pos, tokenIdx,
                                        FreshCaptures).pos
               = PlusExpected(input, toks, pos, tokenIdx, FreshCaptures)

\* a+ab on "aaab": the run is 3, the continuation fails after 3 and succeeds
\* after 2, and the attempt returns 4.
C2_Witness ==
  /\ pattern = <<"a", "+", "a", "b">>
  /\ input = <<"a", "a", "a", "b">>
  /\ AtFirstAttempt
  /\ MaximalRun(input, tokens[1].inner, 0) = 3
  /\ Continuation(input, tokens, 3, 0, FreshCaptures) = None
  /\ Continuation(input, tokens, 2, 0, FreshCaptures) = 4
  /\ Attempt(input, tokens, 0).pos = 4

----------------------------------------------------------------------------
(* C3.                                                                     *)

\* Alternative k of the group at tokenIdx, matched on its own at pos.
Branch(inp, toks, pos, tokenIdx, caps, k) ==
  MatchesAtPositionWithCaptures(inp, toks[tokenIdx + 1].alts[k], pos,
    PadCaptures(caps, toks[tokenIdx + 1].n))

\* The continuation after the group, from where alternative k ended, with
\* the group's capture recorded.  Defined when the branch matched.
AfterBranch(inp, toks, pos, tokenIdx, caps, k) ==
  LET b == Branch(inp, toks, pos, tokenIdx, caps, k) IN
  MatchesAtPositionRecursive(inp, toks, b.pos, tokenIdx + 1,
    [b.caps EXCEPT ![toks[tokenIdx + 1].n] = Slice(inp, pos, b.pos)])

\* Both the branch and the continuation after the group succeed.
BranchWins(inp, toks, pos, tokenIdx, caps, k) ==
  /\ Branch(inp, toks, pos, tokenIdx, caps, k).pos >= 0
  /\ AfterBranch(inp, toks, pos, tokenIdx, caps, k).pos >= 0

\* C3: a Group returns the result of the first alternative, in declaration
\* order, for which both the branch and the continuation after the group
\* succeed, and no match when there is none: an alternative whose branch
\* matches and whose continuation fails is passed over.
C3_GroupFirstWinningAlternative ==
  AtFirstAttempt =>
    \A toks \in SeqsWithin(tokens) :
      \A tokenIdx \in 0..(Len(toks) - 1) :
        toks[tokenIdx + 1].t = "Group" =>
          \A pos \in 0..Len(input) :
            LET r == MatchesAtPositionRecursive(input, toks, pos, tokenIdx,
                                                FreshCaptures)
                winners ==
                  { k \in 1..Len(toks[tokenIdx + 1].alts) :
                      BranchWins(input, toks, pos, tokenIdx, FreshCaptures,
                                 k) }
            IN  r.pos # Diverge =>
                  IF winners = {} THEN r.pos = None
                  ELSE r = AfterBranch(input, toks, pos, tokenIdx,
                             FreshCaptures,
                             CHOOSE k \in winners : \A j \in winners : k <= j)

\* (a|ab)c on "abc": the branch a matches and its continuation fails, the
\* branch ab wins, and the attempt returns 3.
C3_Witness ==
  /\ pattern = <<"(", "a", "|", "a", "b", ")", "c">>
  /\ input = <<"a", "b", "c">>
  /\ AtFirstAttempt
  /\ Branch(input, tokens, 0, 0, FreshCaptures, 1).pos = 1
  /\ AfterBranch(input, tokens, 0, 0, FreshCaptures, 1).pos = None
  /\ BranchWins(input, tokens, 0, 0, FreshCaptures, 2)
  /\ Attempt(input, tokens, 0).pos = 3

----------------------------------------------------------------------------
(* C4.                                                                     *)

CatBackref == <<"(", "c", "a", "t", ")", "\\", "1">>
StarBackref == <<"(", "a", "*", ")", "\\", "1">>
OptionalBackref == <<"(", "a", "?", ")", "\\", "1">>

\* C4, as claimed: (cat)\1 matches "catcat" and does not match "catdog",
\* and (a*)\1 matches the empty input.
C4_BackreferenceEqualityAsClaimed ==
  pc = "done" =>
    /\ (pattern = CatBackref /\ input = <<"c", "a", "t", "c", "a", "t">> => result)
    /\ (pattern = CatBackref /\ input = <<"c", "a", "t", "d", "o", "g">> => ~result)
    /\ (pattern = StarBackref /\ input = << >> => result)

\* C4, amended: (cat)\1 matches "catcat" and does not match "catdog";
\* (a*)\1 does not match the empty input, because * compiles to a literal
\* (the pattern matches "a*a*"); an empty capture does match an empty
\* reference: (a?)\1 matches the empty input.
C4_BackreferenceEquality ==
  pc = "done" =>
    /\ (pattern = CatBackref /\ input = <<"c", "a", "t", "c", "a", "t">> => result)
    /\ (pattern = CatBackref /\ input = <<"c", "a", "t", "d", "o", "g">> => ~result)
    /\ (pattern = StarBackref /\ input = << >> => ~result)
    /\ (pattern = StarBackref /\ input = <<"a", "*", "a", "*">> => result)
    /\ (pattern = OptionalBackref /\ input = << >> => result)

\* (cat)\1 has matched "catcat" from position 0 with group 1 holding "cat".
C4_Witness ==
  /\ pc = "done"
  /\ pattern = CatBackref
  /\ input = <<"c", "a", "t", "c", "a", "t">>
  /\ result
  /\ lastEnd = 6
  /\ captures = << <<"c", "a", "t">> >>

----------------------------------------------------------------------------
(* C5.                                                                     *)

\* As many ( as ) in the pattern.
Balanced(pat) ==
  Cardinality({k \in 1..Len(pat) : pat[k] = "("})
    = Cardinality({k \in 1..Len(pat) : pat[k] = ")"})

\* C5: a Backreference evaluated before its group has captured anything in
\* the attempt makes the branch fail.  A token sequence that begins with a
\* backreference evaluates it with nothing captured, at every start
\* position, so match_pattern does not return true through it.
C5_UnsetBackreferenceFails ==
  (/\ pc = "done"
   /\ ~Special(pattern)
   /\ Balanced(pattern)
   /\ Len(tokens) > 0
   /\ tokens[1].t = "Backreference")
  => ~result

----------------------------------------------------------------------------
(* C6.                                                                     *)

\* One pattern of each malformed kind: an unterminated class, an
\* unterminated group, a trailing unescaped backslash, a + and a ? with no
\* preceding atom.
MalformedPatterns ==
  { <<"[", "a", "b">>,
    <<"(", "a", "b">>,
    <<"a", "b", "\\">>,
    <<"+", "a">>,
    <<"?", "a">> }

\* C6: compiling a malformed pattern yields a parse error and never a token
\* sequence: match_pattern holds no compiled alternatives for it.
C6_MalformedPatternNotCompiled ==
  pattern \in MalformedPatterns => Len(alternatives) = 0

----------------------------------------------------------------------------
(* C7.                                                                     *)

\* C7: a call of matches_at_position_recursive that returns no match leaves
\* the caller's capture vector as it was; an attempt that returned no match,
\* repeated at the same start position with the vector it left, returns no
\* match again; and a failed attempt of the driver left only empty captures
\* behind.
C7_CaptureIsolation ==
  /\ AtFirstAttempt =>
       /\ \A caps \in SomeCaptures :
            \A toks \in SeqsWithin(tokens) :
              \A tokenIdx \in 0..Len(toks) :
                \A pos \in 0..Len(input) :
                  LET r == MatchesAtPositionRecursive(input, toks, pos,
                                                      tokenIdx, caps)
                  IN  r.pos = None => r.caps = caps
       /\ \A start \in 0..Len(input) :
            LET r == Attempt(input, tokens, start) IN
            r.pos = None =>
              MatchesAtPositionWithCaptures(input, tokens, start,
                                            r.caps).pos = None
  /\ (pc \in {"try", "alt"} /\ lastEnd = None) =>
       \A k \in 1..Len(captures) : captures[k] = << >>

\* (a|ab)c on "ab": both branches of the group matched at 0 and captured,
\* the continuation failed after each, the attempt returned no match and
\* left group 1 empty; the driver is at the next start position.
C7_Witness ==
  /\ pattern = <<"(", "a", "|", "a", "b", ")", "c">>
  /\ input = <<"a", "b">>
  /\ pc = "try"
  /\ startPos = 1
  /\ lastEnd = None
  /\ captures = << << >> >>
  /\ Branch(input, tokens, 0, 0, << << >> >>, 1).pos = 1
  /\ AfterBranch(input, tokens, 0, 0, << << >> >>, 1).pos = None
  /\ Branch(input, tokens, 0, 0, << << >> >>, 2).pos = 2
  /\ AfterBranch(input, tokens, 0, 0, << << >> >>, 2).pos = None

----------------------------------------------------------------------------
(* C8.                                                                     *)

\* C8: for each of the two intercepted patterns, the result of the
\* dedicated matcher equals the result of the general path for the same
\* pattern and input.
C8_DedicatedMatchersAgreeWithGeneralPath ==
  (pc = "done" /\ Special(pattern))
  => (result <=> GeneralMatch(input, pattern) = "true")

----------------------------------------------------------------------------
(* C9.                                                                     *)

\* The token sequence with the ? at tokenIdx replaced by its inner atom.
Unquestioned(toks, tokenIdx) ==
  [toks EXCEPT ![tokenIdx + 1] = toks[tokenIdx + 1].inner]

\* C9: a ? over any atom, a group included, first matches the atom once and
\* then the continuation, and only when that fails skips the atom and tries
\* the continuation at the unchanged position.
C9_OptionalTriesAtomFirst ==
  AtFirstAttempt =>
    \A toks \in SeqsWithin(tokens) :
      \A tokenIdx \in 0..(Len(toks) - 1) :
        (/\ toks[tokenIdx + 1].t = "Question"
         /\ toks[tokenIdx + 1].inner.t \in SingleCharKinds \cup {"Group"})
        => \A pos \in 0..Len(input) :
             LET once == MatchesAtPositionRecursive(input,
                           Unquestioned(toks, tokenIdx), pos, tokenIdx,
                           FreshCaptures).pos
             IN  MatchesAtPositionRecursive(input, toks, pos, tokenIdx,
                                            FreshCaptures).pos
                   = IF once # None THEN once
                     ELSE Continuation(input, toks, pos, tokenIdx,
                                       FreshCaptures)

----------------------------------------------------------------------------
(* C10.                                                                    *)

\* C10: after a group quantified with + has matched, a backreference to it
\* matches the text of the group's last iteration: (a)+\1 matches "aa" and
\* does not match "a".
C10_BackreferenceAfterRepeatedGroup ==
  (pc = "done" /\ pattern = <<"(", "a", ")", "+", "\\", "1">>)
  => /\ (input = <<"a", "a">> => result)
     /\ (input = <<"a">> => ~result)

----------------------------------------------------------------------------
(* C11.                                                                    *)

\* The pattern without its parentheses.
Ungrouped(pat) == SelectSeq(pat, LAMBDA c : c \notin {"(", ")"})

\* Patterns in which the parentheses only enclose: no backreference or other
\* escape, no anchor, no bracket, no alternation; the parentheses balance
\* and each ) closes a ( before it; no quantifier stands right after a parenthesis, so that every quantifier
\* has the same operand with and without the parentheses.
GroupingOnly(pat) ==
  /\ Balanced(pat)
  /\ \A n \in 1..Len(pat) :
       Cardinality({k \in 1..n : pat[k] = "("})
         >= Cardinality({k \in 1..n : pat[k] = ")"})
  /\ \E k \in 1..Len(pat) : pat[k] = "("
  /\ \A k \in 1..Len(pat) : pat[k] \notin {"\\", "^", "$", "[", "]", "|"}
  /\ \A k \in 1..(Len(pat) - 1) :
       pat[k] \in {"(", ")"} => pat[k + 1] \notin {"+", "?"}
  /\ pat[1] \notin {"+", "?"}

\* C11: for a pattern without backreferences, enclosing a sub-pattern in a
\* group does not change whether the pattern matches; (a+)ab matches "aaab"
\* exactly as a+ab does.
C11_GroupingPreservesMatch ==
  (pc = "done" /\ GroupingOnly(pattern))
  => (result <=> MatchPattern(input, Ungrouped(pattern)) = "true")

----------------------------------------------------------------------------
(* C12.                                                                    *)

\* C12: match_pattern terminates, returning a boolean, for every pattern and
\* every input, patterns such as ()+ and (a?)+ included: no call is ever
\* inside a loop that it cannot leave.  From pc = "loop" the only step is
\* one more pass of the same loop, so a call that gets there never reaches
\* "done".
C12_MatchPatternTerminates == pc # "loop"

----------------------------------------------------------------------------
(* C13.                                                                    *)

\* The second character of an escape that makes a literal.
EscapesToLiteral(c) == c \notin {"d", "w", "s"} /\ ~IsAsciiDigit(c)

\* The pattern ends in \$ with the backslash itself not escaped.
EndsWithEscapedDollar(pat) ==
  /\ Len(pat) >= 2
  /\ pat[Len(pat)] = "$"
  /\ pat[Len(pat) - 1] = "\\"
  /\ (Len(pat) >= 3 => pat[Len(pat) - 2] # "\\")

\* C13: a backslash followed by a character that is not d, w, s or a digit
\* is a literal matched by exactly that character, wherever it stands: a
\* pattern that is one such escape matches the inputs containing the
\* character, ^a\+b$ matches only "a+b", and a pattern ending in \$ matches
\* only inputs that contain a '$'.
C13_EscapedLiteralMatchesItself ==
  pc = "done" =>
    /\ (/\ Len(pattern) = 2
        /\ pattern[1] = "\\"
        /\ EscapesToLiteral(pattern[2])
        /\ pattern[2] # "$")
       => (result <=> Contains(input, pattern[2]))
    /\ pattern = <<"^", "a", "\\", "+", "b", "$">>
       => (result <=> input = <<"a", "+", "b">>)
    /\ EndsWithEscapedDollar(pattern) => (result => Contains(input, "$"))

=============================================================================
